---- MODULE Spec2Model ----
(***************************************************************************)
(* Model of models/baseline/pre_process.py (CliCR -> BERT pre-processing). *)
(*                                                                         *)
(* Strings are sequences of code points (Python str), so that the regular  *)
(* expression substitutions, lower() and the tokenizer are computed on     *)
(* characters.  Four specifications share the variables:                   *)
(*   SpecClean    clean_paragraph applied once and twice                   *)
(*   SpecContext  generate_bert_format_context                             *)
(*   SpecQas      generate_bert_format_qas                                 *)
(*   Spec         the entry point: add_to_dataframe on train, test, dev    *)
(***************************************************************************)
EXTENDS Integers, Sequences, FiniteSets, TLC

VARIABLES
    wp,                 \* tokenizer in use: longest word piece of its vocabulary
    cp_pc, cp_in, cp_out, cp_out2,
    ctx_pc, ctx_title, ctx_context, ctx_body, ctx_segment_ids,
    qa_pc, qa_question, qa_answer, qa_query, qa_index_ids,
    pc, split, data, docIdx, qaIdx, ansIdx, body, segment_id,
    df, sources, sample, written, diag, err

cleanVars == <<cp_pc, cp_in, cp_out, cp_out2>>
ctxVars   == <<ctx_pc, ctx_title, ctx_context, ctx_body, ctx_segment_ids>>
qaVars    == <<qa_pc, qa_question, qa_answer, qa_query, qa_index_ids>>
mainVars  == <<pc, split, data, docIdx, qaIdx, ansIdx, body, segment_id,
               df, sources, sample, written, diag, err>>
vars      == <<wp, cleanVars, ctxVars, qaVars, mainVars>>

(***************************************************************************)
(* Bounds                                                                  *)
(***************************************************************************)
MaxPieces == 3      \* pieces concatenated into an input of clean_paragraph
MaxCtxPieces == 3   \* pieces concatenated into a context
MaxQPieces == 3     \* pieces concatenated into a question
MaxDocs == 3        \* documents in data["data"] of one split
SampleCap == 2      \* stands for the 200 of sources[:200]

(***************************************************************************)
(* Characters and literal strings                                          *)
(***************************************************************************)
SPACE == <<32>>
BEG == <<66, 69, 71, 95, 95>>                       \* "BEG__"
END == <<95, 95, 69, 78, 68>>                       \* "__END"
CLS == <<91, 67, 76, 83, 93>>                       \* "[CLS]"
SEP == <<91, 83, 69, 80, 93>>                       \* "[SEP]"
MASK == <<91, 77, 65, 83, 75, 93>>                  \* "[MASK]"
PLACEHOLDER == <<64, 112, 108, 97, 99, 101, 104, 111, 108, 100, 101, 114>>  \* "@placeholder"
None == <<>>
NoError == "none"

\* Python 3 str pattern \s restricted to the code points that survive the
\* non-ASCII substitution: \t \n \v \f \r, \x1c-\x1f and the space.
IsSpace(c) == c \in {9, 10, 11, 12, 13, 28, 29, 30, 31, 32}
IsAscii(c) == c <= 127

\* s[i..] starts with the literal pat
StartsAt(s, i, pat) ==
    /\ i + Len(pat) - 1 <= Len(s)
    /\ \A j \in 1..Len(pat) : s[i + j - 1] = pat[j]

RECURSIVE subLiteralFrom(_, _, _, _)
subLiteralFrom(s, i, pat, repl) ==
    IF i > Len(s) THEN <<>>
    ELSE IF StartsAt(s, i, pat)
         THEN repl \o subLiteralFrom(s, i + Len(pat), pat, repl)
         ELSE <<s[i]>> \o subLiteralFrom(s, i + 1, pat, repl)

\* re.sub(pat, repl, s) for a literal, non-empty pat: every leftmost
\* non-overlapping occurrence is replaced in one left-to-right scan.
re_subFirstOnly(pat, repl, s) ==
    IF \E i \in 1..Len(s) : StartsAt(s, i, pat)
    THEN LET i == CHOOSE k \in 1..Len(s) :
                      /\ StartsAt(s, k, pat)
                      /\ \A m \in 1..(k - 1) : ~StartsAt(s, m, pat)
         IN SubSeq(s, 1, i - 1) \o repl \o SubSeq(s, i + Len(pat), Len(s))
    ELSE s
re_sub(pat, repl, s) == subLiteralFrom(s, 1, pat, repl)

\* membership of a regular-expression character class
InClass(cls, c) == IF cls = "nonascii" THEN ~IsAscii(c) ELSE IsSpace(c)

\* re.sub(cls + "+", " ", s): every maximal run of the class becomes one space
RECURSIVE subRunsFrom(_, _, _)
subRunsFrom(s, i, cls) ==
    IF i > Len(s) THEN <<>>
    ELSE IF InClass(cls, s[i])
         THEN IF i > 1 /\ InClass(cls, s[i - 1])
              THEN subRunsFrom(s, i + 1, cls)
              ELSE SPACE \o subRunsFrom(s, i + 1, cls)
         ELSE <<s[i]>> \o subRunsFrom(s, i + 1, cls)

\* re.sub(r"[^\x00-\x7F]+", " ", s)
subNonAsciiKeep(s) == s
subNonAscii(s) == subRunsFrom(s, 1, "nonascii")
\* re.sub(r"\s+", " ", s)
subSpaces(s) == subRunsFrom(s, 1, "space")

\* str.lower() on a string that is ASCII by then
lowerChar(c) == IF c >= 65 /\ c <= 90 THEN c + 32 ELSE c
lowerKeep(s) == s
lower(s) == [i \in 1..Len(s) |-> lowerChar(s[i])]

clean_paragraph(paragraph) ==
    LET p1 == subNonAscii(paragraph)
        p2 == re_sub(BEG, <<>>, p1)
        p3 == re_sub(END, <<>>, p2)
        p4 == subSpaces(p3)
    IN lower(p4)

(***************************************************************************)
(* Inputs of clean_paragraph: concatenations of pieces chosen so that      *)
(* removing one marker or one non-ASCII run can join its neighbours.       *)
(***************************************************************************)
CleanPieces ==
    { <<66, 69>>,        \* "BE"
      BEG,               \* "BEG__"
      <<71, 95, 95>>,    \* "G__"
      END,               \* "__END"
      <<95, 95>>,        \* "__"
      <<69, 78, 68>>,    \* "END"
      SPACE,             \* " "
      <<10>>,            \* "\n"
      <<233>>,           \* "e" with acute accent, non-ASCII
      <<97>> }           \* "a"

RECURSIVE Concats(_, _)
Concats(pieces, n) ==
    IF n = 0 THEN { <<>> }
    ELSE LET shorter == Concats(pieces, n - 1)
         IN shorter \cup { s \o p : s \in shorter, p \in pieces }

CleanInputs == Concats(CleanPieces, MaxPieces)

(***************************************************************************)
(* The collaborators: BertTokenizer.tokenize and nltk's sent_tokenize.     *)
(* The tokenizer is the uncased BERT one: the special tokens are cut out   *)
(* of the text wherever they occur, the rest is lower-cased, split at      *)
(* whitespace and around punctuation, and every word is cut into word      *)
(* pieces.  The vocabulary is abstracted to the length of its longest      *)
(* piece (tokenizer = that length), continuation pieces carry "##".        *)
(***************************************************************************)
WordPieceLens == {2, 8}

IsPunct(c) == \/ (c >= 33 /\ c <= 47) \/ (c >= 58 /\ c <= 64)
              \/ (c >= 91 /\ c <= 96) \/ (c >= 123 /\ c <= 126)
Specials == {CLS, SEP, MASK}
Min(a, b) == IF a <= b THEN a ELSE b

RECURSIVE wordpiece(_, _, _)
wordpiece(word, n, first) ==
    IF word = <<>> THEN <<>>
    ELSE LET k == Min(n, Len(word))
             head == SubSeq(word, 1, k)
         IN << IF first THEN head ELSE <<35, 35>> \o head >>
               \o wordpiece(SubSeq(word, k + 1, Len(word)), n, FALSE)

RECURSIVE tokenizeFrom(_, _, _, _)
tokenizeFrom(s, i, cur, n) ==
    IF i > Len(s) THEN wordpiece(cur, n, TRUE)
    ELSE IF \E t \in Specials : StartsAt(s, i, t)
         THEN LET t == CHOOSE u \in Specials : StartsAt(s, i, u)
              IN wordpiece(cur, n, TRUE) \o <<t>>
                    \o tokenizeFrom(s, i + Len(t), <<>>, n)
    ELSE IF IsSpace(s[i])
         THEN wordpiece(cur, n, TRUE) \o tokenizeFrom(s, i + 1, <<>>, n)
    ELSE IF IsPunct(s[i])
         THEN wordpiece(cur, n, TRUE) \o << <<s[i]>> >>
                    \o tokenizeFrom(s, i + 1, <<>>, n)
    ELSE tokenizeFrom(s, i + 1, cur \o <<lowerChar(s[i])>>, n)

\* tokenizer.tokenize(text)
tokenize(tokenizer, text) == tokenizeFrom(text, 1, <<>>, tokenizer)

\* sent_tokenize(text): a sentence ends at '.', '!' or '?' followed by
\* whitespace; the whitespace between sentences belongs to neither.
IsSentEnd(c) == c \in {46, 33, 63}

RECURSIVE rstrip(_)
rstrip(s) ==
    IF s # <<>> /\ IsSpace(s[Len(s)]) THEN rstrip(SubSeq(s, 1, Len(s) - 1)) ELSE s

RECURSIVE sentFrom(_, _, _)
sentFrom(s, i, cur) ==
    IF i > Len(s) THEN (IF rstrip(cur) = <<>> THEN <<>> ELSE << rstrip(cur) >>)
    ELSE IF IsSpace(s[i]) /\ cur = <<>> THEN sentFrom(s, i + 1, cur)
    ELSE IF IsSpace(s[i]) /\ IsSentEnd(cur[Len(cur)])
         THEN <<cur>> \o sentFrom(s, i + 1, <<>>)
    ELSE sentFrom(s, i + 1, cur \o <<s[i]>>)

sent_tokenize(text) == sentFrom(text, 1, <<>>)

(***************************************************************************)
(* generate_bert_format_context                                            *)
(***************************************************************************)
Repeat(v, n) == [j \in 1..n |-> v]

\* [index] * (len(tokenizer.tokenize(new_sen)) + 1)
segmentRunExact(index, new_sen, tokenizer) ==
    Repeat(index, Len(tokenize(tokenizer, new_sen)))
segmentRun(index, new_sen, tokenizer) ==
    Repeat(index, Len(tokenize(tokenizer, new_sen)) + 1)

\* the for loop over enumerate(sentences); index is 0-based as in the code
RECURSIVE contextLoop(_, _, _, _, _)
contextLoop(sentences, index, format, segment_ids, tokenizer) ==
    IF index >= Len(sentences) THEN <<format, segment_ids>>
    ELSE LET item == sentences[index + 1]
         IN IF index = 0
            THEN contextLoop(sentences, index + 1,
                     CLS \o SPACE \o format \o item,
                     segment_ids \o segmentRun(index, CLS \o SPACE \o item, tokenizer),
                     tokenizer)
            ELSE contextLoop(sentences, index + 1,
                     format \o SPACE \o SEP \o SPACE \o item,
                     segment_ids \o segmentRun(index, SPACE \o SEP \o SPACE \o item, tokenizer),
                     tokenizer)

\* returns <<format, segment_ids>>
generate_bert_format_context(title, context, tokenizer) ==
    LET t == clean_paragraph(title)
        c == clean_paragraph(context)
        sentences == <<t>> \o sent_tokenize(c)
    IN contextLoop(sentences, 0, <<>>, <<>>, tokenizer)

(***************************************************************************)
(* generate_bert_format_qas                                                *)
(***************************************************************************)
\* "[MASK] " * n
maskPatternExtra(n) == [i \in 1..(7 * (n + 1)) |-> (MASK \o SPACE)[((i - 1) % 7) + 1]]
maskPattern(n) == [i \in 1..(7 * n) |-> (MASK \o SPACE)[((i - 1) % 7) + 1]]

\* index_ids: 1 at the positions of the tokens equal to "[MASK]"
markMasks(tokens) == [i \in 1..Len(tokens) |-> IF tokens[i] = MASK THEN 1 ELSE 0]

\* returns <<question, index_ids>>
generate_bert_format_qas(question, answer, tokenizer) ==
    LET q == clean_paragraph(question)
        pattern == maskPattern(Len(tokenize(tokenizer, answer)))
        substituted == re_sub(PLACEHOLDER, pattern, q)
        tokens == tokenize(tokenizer, substituted)
    IN <<substituted, markMasks(tokens)>>

(***************************************************************************)
(* Inputs of the two encoders                                              *)
(***************************************************************************)
Titles ==
    { <<>>,
      <<67, 97, 115, 101, 32, 49>>,                    \* "Case 1"
      BEG \o <<72, 105>> \o END }                      \* "BEG__Hi__END"
CtxPieces ==
    { <<72, 111, 116, 46>>,    \* "Hot."
      SPACE,
      <<110, 111>>,            \* "no"
      <<63>>,                  \* "?"
      <<233>>,                 \* non-ASCII
      BEG }
Contexts == Concats(CtxPieces, MaxCtxPieces)

QPieces ==
    { PLACEHOLDER,
      <<64, 80>> \o SubSeq(PLACEHOLDER, 3, 12),        \* "@Placeholder"
      <<73, 115, 32>>,                                 \* "Is "
      <<46>>,                                          \* "."
      MASK,                                            \* "[MASK]"
      <<120>> }                                        \* "x"
Questions == Concats(QPieces, MaxQPieces)
Answers ==
    { <<>>,
      <<102, 108, 117>>,                               \* "flu"
      <<72, 97, 121, 32, 102, 101, 118, 101, 114>>,    \* "Hay fever"
      MASK }

(***************************************************************************)
(* Specifications of the pure functions                                    *)
(***************************************************************************)
CleanIdle == /\ cp_pc = "idle" /\ cp_in = <<>> /\ cp_out = <<>> /\ cp_out2 = <<>>
CtxIdle == /\ ctx_pc = "idle" /\ ctx_title = <<>> /\ ctx_context = <<>>
           /\ ctx_body = <<>> /\ ctx_segment_ids = <<>>
QaIdle == /\ qa_pc = "idle" /\ qa_question = <<>> /\ qa_answer = <<>>
          /\ qa_query = <<>> /\ qa_index_ids = <<>>
MainIdle == /\ pc = "idle" /\ split = 0 /\ data = <<>> /\ docIdx = 0 /\ qaIdx = 0
            /\ ansIdx = 0 /\ body = <<>> /\ segment_id = <<>> /\ df = <<>>
            /\ sources = <<>> /\ sample = <<>> /\ written = <<>> /\ diag = 0
            /\ err = NoError

InitClean ==
    /\ cp_pc = "input" /\ cp_in \in CleanInputs /\ cp_out = <<>> /\ cp_out2 = <<>>
    /\ wp = 8 /\ CtxIdle /\ QaIdle /\ MainIdle

CleanOnce ==
    /\ cp_pc = "input"
    /\ cp_out' = clean_paragraph(cp_in)
    /\ cp_pc' = "once"
    /\ UNCHANGED <<wp, cp_in, cp_out2, ctxVars, qaVars, mainVars>>

CleanTwice ==
    /\ cp_pc = "once"
    /\ cp_out2' = clean_paragraph(cp_out)
    /\ cp_pc' = "twice"
    /\ UNCHANGED <<wp, cp_in, cp_out, ctxVars, qaVars, mainVars>>

NextClean == CleanOnce \/ CleanTwice
SpecClean == InitClean /\ [][NextClean]_vars

InitContext ==
    /\ ctx_pc = "input" /\ ctx_title \in Titles /\ ctx_context \in Contexts
    /\ ctx_body = <<>> /\ ctx_segment_ids = <<>>
    /\ wp \in WordPieceLens /\ CleanIdle /\ QaIdle /\ MainIdle

EncodeContext ==
    /\ ctx_pc = "input"
    /\ LET r == generate_bert_format_context(ctx_title, ctx_context, wp)
       IN /\ ctx_body' = r[1]
          /\ ctx_segment_ids' = r[2]
    /\ ctx_pc' = "done"
    /\ UNCHANGED <<wp, ctx_title, ctx_context, cleanVars, qaVars, mainVars>>

NextContext == EncodeContext
SpecContext == InitContext /\ [][NextContext]_vars

InitQas ==
    /\ qa_pc = "input" /\ qa_question \in Questions /\ qa_answer \in Answers
    /\ qa_query = <<>> /\ qa_index_ids = <<>>
    /\ wp \in WordPieceLens /\ CleanIdle /\ CtxIdle /\ MainIdle

EncodeQas ==
    /\ qa_pc = "input"
    /\ LET r == generate_bert_format_qas(qa_question, qa_answer, wp)
       IN /\ qa_query' = r[1]
          /\ qa_index_ids' = r[2]
    /\ qa_pc' = "done"
    /\ UNCHANGED <<wp, qa_question, qa_answer, cleanVars, ctxVars, mainVars>>

NextQas == EncodeQas
SpecQas == InitQas /\ [][NextQas]_vars

(***************************************************************************)
(* The entry point and add_to_dataframe                                    *)
(*                                                                         *)
(* A document p is [source, document], p.document being a record that     *)
(* has some of the keys title, context and qas.  A QA pair is              *)
(* [query, answers], answers being the texts of pairs["answers"].  A       *)
(* Python value that may be None is the empty tuple for None and <<v>> for *)
(* the value v.                                                            *)
(***************************************************************************)
SplitsSwapped == <<"train", "dev", "test">>
Splits == <<"train", "test", "dev">>

\* extract_context(doc, key): the value under the key, or None (after the
\* diagnostic has been written) when the key does not exist
extract_contextEmpty(doc, key) ==
    IF key \in DOMAIN doc.document THEN <<doc.document[key]>> ELSE << <<>> >>
extract_context(doc, key) ==
    IF key \in DOMAIN doc.document THEN <<doc.document[key]>> ELSE None

\* diagnostics written by the calls of extract_context on the keys
Diagnostics(doc, keys) == Cardinality(keys \ DOMAIN doc.document)

\* df.append({...}, ignore_index=True)
appendRowReplace(table, row) == <<row>>
appendRow(table, row) == Append(table, row)

\* the row of lines 138-145 for answer number a of pair number q
NewRow(source, doc_body, doc_segment_id, pairs, a, tokenizer) ==
    LET r == generate_bert_format_qas(pairs.query, pairs.answers[a], tokenizer)
    IN [source |-> source, body |-> doc_body, segment_ids |-> doc_segment_id,
        query |-> r[1], answers |-> pairs.answers, index_ids |-> r[2]]

\* the next (pair, answer) at or after (q, a) that the two nested loops
\* visit, <<0, 0>> when they are exhausted
RECURSIVE NextPos(_, _, _)
NextPos(qas, q, a) ==
    IF q > Len(qas) THEN <<0, 0>>
    ELSE IF a <= Len(qas[q].answers) THEN <<q, a>>
    ELSE NextPos(qas, q + 1, 1)

Range(f) == {f[i] : i \in DOMAIN f}
\* df.loc[df["source"].isin(sources[:200])]
selectSample(table, srcs) ==
    LET first == Range(SubSeq(srcs, 1, Min(SampleCap, Len(srcs))))
    IN SelectSeq(table, LAMBDA r : r.source \in first)

SampleFile(file) == <<"sample", file>>     \* "sample" + "_" + file + ".tsv"
FullFile(file) == <<"full", file>>         \* file + ".tsv"

\* the documents a split file may hold
Sources == {"A", "B", "C"}
T1 == <<84>>                                           \* "T"
C1 == <<72, 111, 116, 46, 32, 110, 111>>               \* "Hot. no"
T2 == <<67, 97, 115, 101, 32, 49>>                     \* "Case 1"
Flu == <<102, 108, 117>>                               \* "flu"
HayFever == <<72, 97, 121, 32, 102, 101, 118, 101, 114>>
Q1 == <<73, 115, 32>> \o PLACEHOLDER                   \* "Is @placeholder"
Q2 == <<120>>                                          \* "x"
Qas1 == << [query |-> Q1, answers |-> <<Flu, HayFever>>] >>
Qas2 == << [query |-> Q2, answers |-> <<>>],
           [query |-> Q1 \o <<46>>, answers |-> <<Flu>>] >>
GoodShapes ==
    { [title |-> T1, context |-> C1, qas |-> Qas1],
      [title |-> T2, context |-> <<>>, qas |-> Qas2] }
\* records without one of the keys
BadShapes ==
    { [context |-> C1, qas |-> Qas1],
      [title |-> T1, qas |-> Qas1],
      [title |-> T1, context |-> C1] }
Docs == { [source |-> s, document |-> d] : s \in Sources, d \in GoodShapes }
            \cup { [source |-> "C", document |-> d] : d \in BadShapes }
RECURSIVE DocSeqs(_)
DocSeqs(n) ==
    IF n = 0 THEN { <<>> }
    ELSE LET shorter == DocSeqs(n - 1)
         IN shorter \cup { Append(ds, d) : ds \in shorter, d \in Docs }
Datasets == DocSeqs(MaxDocs)

Init ==
    /\ pc = "start" /\ split = 1 /\ data = <<>> /\ docIdx = 0 /\ qaIdx = 0
    /\ ansIdx = 0 /\ body = <<>> /\ segment_id = <<>> /\ df = <<>>
    /\ sources = <<>> /\ sample = <<>> /\ written = <<>> /\ diag = 0
    /\ err = NoError
    /\ wp = 8 /\ CleanIdle /\ CtxIdle /\ QaIdle

\* lines 114-121: the empty table and source list are created, the split's
\* file is opened and read
OpenFile ==
    /\ pc = "start"
    /\ data' \in Datasets
    /\ df' = <<>> /\ sources' = <<>>
    /\ pc' = "loop"
    /\ UNCHANGED <<wp, split, docIdx, qaIdx, ansIdx, body, segment_id, sample,
                   written, diag, err, cleanVars, ctxVars, qaVars>>

\* line 120: the split's file does not exist
OpenFileFail ==
    /\ pc = "start"
    /\ pc' = "crashed" /\ err' = "FileNotFoundError"
    /\ UNCHANGED <<wp, split, data, docIdx, qaIdx, ansIdx, body, segment_id, df,
                   sources, sample, written, diag, cleanVars, ctxVars, qaVars>>

\* lines 122-133 for the next document, up to the first row or the end of
\* its QA pairs
BeginDoc ==
    /\ pc = "loop" /\ docIdx < Len(data)
    /\ LET p == data[docIdx + 1]
           title == extract_context(p, "title")
           context == extract_context(p, "context")
           qas == extract_context(p, "qas")
       IN /\ title # None /\ context # None /\ qas # None
          /\ LET r == generate_bert_format_context(clean_paragraph(title[1]),
                                                   clean_paragraph(context[1]), wp)
                 pos == NextPos(qas[1], 1, 1)
             IN /\ body' = r[1]
                /\ segment_id' = r[2]
                /\ qaIdx' = pos[1]
                /\ ansIdx' = pos[2]
                /\ pc' = IF pos = <<0, 0>> THEN "loop" ELSE "rows"
          /\ sources' = Append(sources, p.source)
          /\ diag' = diag + Diagnostics(p, {"title", "context", "qas"})
    /\ docIdx' = docIdx + 1
    /\ UNCHANGED <<wp, split, data, df, sample, written, err,
                   cleanVars, ctxVars, qaVars>>

\* lines 122-134 for a document whose title, context or qas is None:
\* clean_paragraph(None) and "for pairs in None" raise TypeError
BeginDocCrash ==
    /\ pc = "loop" /\ docIdx < Len(data)
    /\ LET p == data[docIdx + 1]
           title == extract_context(p, "title")
           context == extract_context(p, "context")
           qas == extract_context(p, "qas")
       IN /\ title = None \/ context = None \/ qas = None
          /\ sources' = Append(sources, p.source)
          /\ diag' = diag + (IF title = None \/ context = None
                             THEN Diagnostics(p, {"title", "context"})
                             ELSE Diagnostics(p, {"title", "context", "qas"}))
          /\ IF title # None /\ context # None
             THEN LET r == generate_bert_format_context(clean_paragraph(title[1]),
                                                        clean_paragraph(context[1]), wp)
                  IN body' = r[1] /\ segment_id' = r[2]
             ELSE UNCHANGED <<body, segment_id>>
    /\ docIdx' = docIdx + 1
    /\ pc' = "crashed" /\ err' = "TypeError"
    /\ UNCHANGED <<wp, split, data, qaIdx, ansIdx, df, sample, written,
                   cleanVars, ctxVars, qaVars>>

\* lines 137-145: one pass of the innermost loop
AppendRow ==
    /\ pc = "rows"
    /\ LET p == data[docIdx]
           qas == extract_context(p, "qas")[1]
           pos == NextPos(qas, qaIdx, ansIdx + 1)
       IN /\ df' = appendRow(df, NewRow(p.source, body, segment_id,
                                        qas[qaIdx], ansIdx, wp))
          /\ qaIdx' = pos[1]
          /\ ansIdx' = pos[2]
          /\ pc' = IF pos = <<0, 0>> THEN "loop" ELSE "rows"
    /\ UNCHANGED <<wp, split, data, docIdx, body, segment_id, sources, sample,
                   written, diag, err, cleanVars, ctxVars, qaVars>>

\* lines 146-150: the sample is selected and written
WriteSample ==
    /\ pc = "loop" /\ docIdx = Len(data)
    /\ sample' = selectSample(df, sources)
    /\ written' = Append(written, SampleFile(Splits[split]))
    /\ pc' = "write_full"
    /\ UNCHANGED <<wp, split, data, docIdx, qaIdx, ansIdx, body, segment_id, df,
                   sources, diag, err, cleanVars, ctxVars, qaVars>>

\* line 149: the sample file cannot be written
WriteSampleFail ==
    /\ pc = "loop" /\ docIdx = Len(data)
    /\ sample' = selectSample(df, sources)
    /\ pc' = "crashed" /\ err' = "OSError"
    /\ UNCHANGED <<wp, split, data, docIdx, qaIdx, ansIdx, body, segment_id, df,
                   sources, written, diag, cleanVars, ctxVars, qaVars>>

\* lines 151-154: the full table is written and add_to_dataframe returns,
\* which ends the life of its local variables; lines 161-167: the entry
\* point goes on with the next split
WriteFull ==
    /\ pc = "write_full"
    /\ written' = Append(written, FullFile(Splits[split]))
    /\ IF split < Len(Splits)
       THEN split' = split + 1 /\ pc' = "start"
       ELSE split' = split /\ pc' = "done"
    /\ data' = <<>> /\ df' = <<>> /\ sources' = <<>> /\ sample' = <<>>
    /\ docIdx' = 0 /\ qaIdx' = 0 /\ ansIdx' = 0
    /\ body' = <<>> /\ segment_id' = <<>>
    /\ UNCHANGED <<wp, diag, err, cleanVars, ctxVars, qaVars>>

\* line 154: the full file cannot be written
WriteFullFail ==
    /\ pc = "write_full"
    /\ pc' = "crashed" /\ err' = "OSError"
    /\ UNCHANGED <<wp, split, data, docIdx, qaIdx, ansIdx, body, segment_id, df,
                   sources, sample, written, diag, cleanVars, ctxVars, qaVars>>

Next ==
    \/ OpenFile \/ OpenFileFail
    \/ BeginDoc \/ BeginDocCrash
    \/ AppendRow
    \/ WriteSample \/ WriteSampleFail
    \/ WriteFull \/ WriteFullFail
Spec == Init /\ [][Next]_vars

(***************************************************************************)
(* Properties of the pure functions                                        *)
(***************************************************************************)
Occurs(s, pat) == \E i \in 1..Len(s) : StartsAt(s, i, pat)
\* number of occurrences of a literal that cannot overlap itself
CountOcc(s, pat) == Cardinality({i \in 1..Len(s) : StartsAt(s, i, pat)})
CountOf(seq, v) == Cardinality({j \in 1..Len(seq) : seq[j] = v})
BEBEG__G__ == <<66, 69>> \o BEG \o <<71, 95, 95>>

\* C5: clean_paragraph is idempotent: cleaning the cleaned string gives the
\* cleaned string again, also when a removal joins the neighbours.
C5_CleanIdempotent == cp_pc = "twice" => cp_out2 = cp_out
C5_Witness ==
    /\ cp_pc = "twice"
    /\ cp_in = BEBEG__G__
    /\ cp_out = lower(BEG)

\* C6: the output of clean_paragraph has no character outside 7-bit ASCII and
\* no occurrence of "BEG__" or "__END".
C6_CleanOutputAsciiNoMarkers ==
    cp_pc \in {"once", "twice"} =>
        /\ \A i \in 1..Len(cp_out) : IsAscii(cp_out[i])
        /\ ~Occurs(cp_out, BEG)
        /\ ~Occurs(cp_out, END)
C6_Witness ==
    /\ cp_pc = "once"
    /\ cp_in \in {BEBEG__G__, <<95, 95>> \o END \o <<69, 78, 68>>, BEG \o <<233>> \o END}
    /\ cp_out # <<>>

\* the units of the body: the cleaned title, then the sentences of the
\* cleaned context, each with the marker put before it
Units == <<clean_paragraph(ctx_title)>> \o sent_tokenize(clean_paragraph(ctx_context))
Marker(i) == IF i = 0 THEN CLS \o SPACE ELSE SPACE \o SEP \o SPACE

\* C1: the segment_ids returned by generate_bert_format_context is as long
\* as the token sequence of the returned body.
C1_SegmentIdsLengthIsBodyTokens ==
    ctx_pc = "done" => Len(ctx_segment_ids) = Len(tokenize(wp, ctx_body))

\* C8: segment_ids is, for i = 0..n in order, the value i repeated
\* len(tokenize(marker_i + unit_i)) + 1 times: non-decreasing, starting at 0,
\* with every value of 0..n present.
C8_SegmentIdsRuns ==
    ctx_pc = "done" =>
        LET n == Len(Units) - 1
            seg == ctx_segment_ids
        IN /\ seg[1] = 0
           /\ \A j \in 1..(Len(seg) - 1) : seg[j] <= seg[j + 1]
           /\ \A j \in 1..Len(seg) : seg[j] \in 0..n
           /\ \A i \in 0..n :
                  /\ CountOf(seg, i) = Len(tokenize(wp, Marker(i) \o Units[i + 1])) + 1
                  /\ CountOf(seg, i) >= 1
C8_Witness ==
    /\ ctx_pc = "done"
    /\ Len(Units) = 3
    /\ ctx_title # <<>>
    /\ CountOf(ctx_segment_ids, 2) >= 2

\* k: sub-tokens of the answer; m: placeholders in the normalized question
AnswerTokens == Len(tokenize(wp, qa_answer))
Placeholders == CountOcc(clean_paragraph(qa_question), PLACEHOLDER)

MasksAre(n) ==
    LET tokens == tokenize(wp, qa_query)
    IN /\ CountOcc(qa_query, MASK) = n
       /\ CountOf(qa_index_ids, 1) = n
       /\ Len(qa_index_ids) = Len(tokens)
       /\ \A i \in 1..Len(tokens) : qa_index_ids[i] = 1 => tokens[i] = MASK

\* C2 as stated: for any question, query_text has exactly k mask markers and
\* index_ids exactly k ones, each at a "[MASK]" token.
C2_ExactlyKMasks == qa_pc = "done" => MasksAre(AnswerTokens)

\* C2: query_text has exactly m * k mask markers and index_ids exactly m * k
\* ones, each at a "[MASK]" token, where m is the number of occurrences of
\* "@placeholder" in the normalized question (k when there is exactly one).
C2_MasksPerPlaceholder == qa_pc = "done" => MasksAre(Placeholders * AnswerTokens)
C2_Witness ==
    /\ qa_pc = "done"
    /\ Placeholders = 1
    /\ AnswerTokens >= 2
    /\ CountOf(qa_index_ids, 1) = AnswerTokens

\* C9 as stated: only the first "@placeholder" of the normalized question is
\* substituted, later ones stay in query_text.
C9_OnlyFirstSubstituted ==
    qa_pc = "done" =>
        qa_query = re_subFirstOnly(PLACEHOLDER, maskPattern(AnswerTokens),
                                   clean_paragraph(qa_question))

\* the pieces of s between the occurrences of the literal pat
RECURSIVE SplitOn(_, _, _, _)
SplitOn(s, pat, i, cur) ==
    IF i > Len(s) THEN <<cur>>
    ELSE IF StartsAt(s, i, pat) THEN <<cur>> \o SplitOn(s, pat, i + Len(pat), <<>>)
    ELSE SplitOn(s, pat, i + 1, cur \o <<s[i]>>)
RECURSIVE Join(_, _)
Join(parts, glue) ==
    IF Len(parts) = 1 THEN parts[1]
    ELSE parts[1] \o glue \o Join(Tail(parts), glue)

\* C9: every "@placeholder" of the normalized question is substituted by the
\* replacement string of mask markers; with no occurrence query_text is the
\* normalized question.
C9_EverySubstituted ==
    qa_pc = "done" =>
        LET q == clean_paragraph(qa_question)
            pattern == Join([i \in 1..(AnswerTokens + 1) |-> <<>>], MASK \o SPACE)
        IN /\ qa_query = Join(SplitOn(q, PLACEHOLDER, 1, <<>>), pattern)
           /\ Placeholders = 0 => qa_query = q
C9_Witness ==
    /\ qa_pc = "done"
    /\ Placeholders >= 2
    /\ AnswerTokens >= 1
    /\ ~Occurs(qa_query, PLACEHOLDER)

(***************************************************************************)
(* Properties of add_to_dataframe and the entry point                      *)
(***************************************************************************)
IsPrefix(a, b) == Len(a) <= Len(b) /\ SubSeq(b, 1, Len(a)) = a

RECURSIVE Flatten(_)
Flatten(seqs) == IF seqs = <<>> THEN <<>> ELSE Head(seqs) \o Flatten(Tail(seqs))

\* the rows of one complete document: one per answer of every QA pair, all
\* with the body and segment ids of the document's title and context
RowsOfPair(source, enc, pair, tokenizer) ==
    [a \in 1..Len(pair.answers) |->
        LET r == generate_bert_format_qas(pair.query, pair.answers[a], tokenizer)
        IN [source |-> source, body |-> enc[1], segment_ids |-> enc[2],
            query |-> r[1], answers |-> pair.answers, index_ids |-> r[2]]]
RowsOfDoc(p, tokenizer) ==
    LET d == p.document
        enc == generate_bert_format_context(d.title, d.context, tokenizer)
    IN Flatten([q \in 1..Len(d.qas) |-> RowsOfPair(p.source, enc, d.qas[q], tokenizer)])
RowsOfDocs(docs, n, tokenizer) ==
    Flatten([i \in 1..n |-> RowsOfDoc(docs[i], tokenizer)])

BadDoc(p) == {"title", "context", "qas"} \ DOMAIN p.document # {}

\* what the table holds at a point of the pass over the documents
RowsAt(at, table, docs, started, tokenizer) ==
    /\ at = "loop" => table = RowsOfDocs(docs, started, tokenizer)
    /\ at = "write_full" => table = RowsOfDocs(docs, Len(docs), tokenizer)
    /\ at = "rows" =>
          LET rows == RowsOfDoc(docs[started], tokenizer)
          IN \E k \in 0..(Len(rows) - 1) :
                 table = RowsOfDocs(docs, started - 1, tokenizer) \o SubSeq(rows, 1, k)

\* C4: the table holds one row per (document, QA pair, answer) in that order,
\* a pair with k answers giving k rows and the rows of a document sharing
\* its body and segment_ids; until it is serialized a step only appends one
\* row to it and leaves the rows it has as they are.
C4_RowPerAnswer ==
    [][ /\ pc # "write_full" => IsPrefix(df, df') /\ Len(df') <= Len(df) + 1
        /\ RowsAt(pc', df', data', docIdx', wp') ]_vars
C4_Witness ==
    /\ pc = "write_full"
    /\ Len(data) = 2
    /\ Len(df) = 3
    /\ df[1].body = df[2].body /\ df[1].segment_ids = df[2].segment_ids
    /\ df[1].query # df[2].query
    /\ df[3].body # df[1].body

RECURSIVE FirstDistinct(_, _, _, _)
FirstDistinct(srcs, i, cap, acc) ==
    IF i > Len(srcs) \/ Cardinality(acc) = cap THEN acc
    ELSE FirstDistinct(srcs, i + 1, cap, acc \cup {srcs[i]})

\* C3: the sample is exactly the rows of the full table whose source is
\* among the first SampleCap distinct sources in document order.
C3_SampleOfFirstDistinctSources ==
    pc = "write_full" =>
        LET first == FirstDistinct(sources, 1, SampleCap, {})
        IN sample = SelectSeq(df, LAMBDA r : r.source \in first)

\* C7: a document without title, context or qas ends the run where it is
\* met: the diagnostic is written, the exception is raised, the table holds
\* the rows of the earlier documents only and no file of the split exists.
C7_MissingKeyAborts ==
    \A i \in 1..docIdx :
        BadDoc(data[i]) =>
            /\ pc = "crashed" /\ err = "TypeError"
            /\ i = docIdx
            /\ diag >= 1
            /\ df = RowsOfDocs(data, i - 1, wp)
            /\ \A f \in Range(written) : f[2] # Splits[split]
C7_Witness ==
    /\ pc = "crashed" /\ err = "TypeError"
    /\ split = 2
    /\ Len(data) = 3 /\ docIdx = 2
    /\ Len(df) >= 1
    /\ diag = 1

FileOrder ==
    << <<"sample", "train">>, <<"full", "train">>,
       <<"sample", "test">>, <<"full", "test">>,
       <<"sample", "dev">>, <<"full", "dev">> >>

\* C10: the files are written in the order sample_train, train, sample_test,
\* test, sample_dev, dev; a sample file is written only when every document
\* of its split has been turned into rows; after a failure no step is taken.
C10_SplitsInOrder ==
    [][ /\ pc # "crashed"
        /\ IsPrefix(written', FileOrder)
        /\ Len(written') <= Len(written) + 1
        /\ (written' # written /\ pc = "loop") =>
               /\ docIdx = Len(data)
               /\ df = RowsOfDocs(data, Len(data), wp) ]_vars
C10_Witness ==
    /\ pc = "crashed" /\ err = "OSError"
    /\ split = 2
    /\ written = SubSeq(FileOrder, 1, 3)

====
